---- MODULE Spec2Model ----
(***************************************************************************)
(* XXH64 (zhangyunhao116/xxh, src/lib.rs): the one-shot function           *)
(* xxh64_slice and the streaming hasher Xxh64 (with_seed, default, write,  *)
(* finish, build_hasher).                                                  *)
(*                                                                         *)
(* A u64 is a tuple of four 16-bit limbs, least significant first, so that *)
(* every intermediate value of the arithmetic stays a small integer.  A    *)
(* byte slice is a sequence of numbers 0..255; Rust's 0-based half-open    *)
(* range slice[lo..hi] is SubSeq(slice, lo + 1, hi).                       *)
(***************************************************************************)
EXTENDS Integers, Sequences, FiniteSets, TLC

\* ------------------------------------------------------------------ bounds

\* Longest byte sequence streamed or hashed in one shot (the longest test
\* vector of test_xxh64 has 80 bytes; two stripes and a tail need 64 + 8).
MaxLen == 80

\* ------------------------------------------------------- 64-bit arithmetic

\* The arithmetic is defined as functions on U64: a function application
\* evaluates its operands before its body, as the machine does.

W16 == 2^16

U64 == [1..4 -> 0..(W16 - 1)]

Zero == <<0, 0, 0, 0>>

\* The sum of limbs i..4 of a and b and a carry into limb i, as the limbs
\* i..4 of the result followed by the carry out of limb 4.
RECURSIVE add_limbs(_, _, _, _)
add_limbs(a, b, i, carry) ==
    IF i > 4 THEN <<carry>>
    ELSE <<(a[i] + b[i] + carry) % W16>>
         \o add_limbs(a, b, i + 1, (a[i] + b[i] + carry) \div W16)

\* u64::wrapping_add
wrapping_add[a \in U64, b \in U64] == SubSeq(add_limbs(a, b, 1, 0), 1, 4)

\* Whether a + b exceeds u64::MAX (the carry out of the top limb).
add_overflows[a \in U64, b \in U64] == add_limbs(a, b, 1, 0)[5] > 0

\* u64::wrapping_sub: a + (2^64 - b) modulo 2^64.
wrapping_sub[a \in U64, b \in U64] ==
    wrapping_add[wrapping_add[a, <<W16 - 1 - b[1], W16 - 1 - b[2],
                                   W16 - 1 - b[3], W16 - 1 - b[4]>>],
                 <<1, 0, 0, 0>>]

\* The eight base-256 digits of a u64, least significant first.
to_digits(a) ==
    <<a[1] % 256, a[1] \div 256, a[2] % 256, a[2] \div 256,
      a[3] % 256, a[3] \div 256, a[4] % 256, a[4] \div 256>>

\* Column k (from 1, weight 256^(k-1)) of the schoolbook product of the
\* 16-bit limbs a and the base-256 digits y: the sum of a[i] * y[j] over the
\* limbs from the given one on with 2 * (i - 1) + j = k.
RECURSIVE col_sum(_, _, _, _)
col_sum(a, y, k, i) ==
    IF i > 4 \/ 2 * (i - 1) >= k THEN 0
    ELSE a[i] * y[k - 2 * (i - 1)] + col_sum(a, y, k, i + 1)

\* The digits of the product from column k on, t being column k plus the
\* carry into it; the columns above the eighth are dropped (modulo 2^64).
RECURSIVE mul_digits(_, _, _, _)
mul_digits(a, y, k, t) ==
    IF k > 8 THEN <<>>
    ELSE <<t % 256>>
         \o mul_digits(a, y, k + 1, col_sum(a, y, k + 1, 1) + (t \div 256))

\* The u64 of eight base-256 digits.
from_digits(d) ==
    <<d[1] + 256 * d[2], d[3] + 256 * d[4],
      d[5] + 256 * d[6], d[7] + 256 * d[8]>>

\* u64::wrapping_mul
wrapping_mul[a \in U64, b \in U64] ==
    from_digits(mul_digits(a, to_digits(b), 1, col_sum(a, to_digits(b), 1, 1)))

\* Limb i (from 1) of x rotated left by 16 * q + s bits: the low 16 - s bits
\* of limb i - q above the high s bits of limb i - q - 1, indices modulo 4.
rotl_limb(x, q, s, i) ==
    (x[((i - 1 - q) % 4) + 1] % (2^(16 - s))) * (2^s)
    + (x[((i - 2 - q) % 4) + 1] \div (2^(16 - s)))

\* u64::rotate_left(r): result bit j is bit (j - r) mod 64.
rotate_left[x \in U64, r \in 1..63] ==
    <<rotl_limb(x, r \div 16, r % 16, 1), rotl_limb(x, r \div 16, r % 16, 2),
      rotl_limb(x, r \div 16, r % 16, 3), rotl_limb(x, r \div 16, r % 16, 4)>>

\* Limb k of x, zero above the fourth.
limb_or_zero(x, k) == IF k > 4 THEN 0 ELSE x[k]

\* Limb i (from 1) of x shifted right by 16 * q + s bits.
shr_limb(x, q, s, i) ==
    (limb_or_zero(x, i + q) \div (2^s))
    + (limb_or_zero(x, i + q + 1) % (2^s)) * (2^(16 - s))

\* u64 >> n: result bit j is bit j + n, zero above bit 63.
shr[x \in U64, n \in 1..63] ==
    <<shr_limb(x, n \div 16, n % 16, 1), shr_limb(x, n \div 16, n % 16, 2),
      shr_limb(x, n \div 16, n % 16, 3), shr_limb(x, n \div 16, n % 16, 4)>>

\* The exclusive or of the low n bits of a and b.
RECURSIVE xor_bits(_, _, _)
xor_bits(a, b, n) ==
    IF n = 0 THEN 0
    ELSE ((a + b) % 2) + 2 * xor_bits(a \div 2, b \div 2, n - 1)

\* u64 ^ u64
xor[a \in U64, b \in U64] ==
    <<xor_bits(a[1], b[1], 16), xor_bits(a[2], b[2], 16),
      xor_bits(a[3], b[3], 16), xor_bits(a[4], b[4], 16)>>

\* u64::from_le_bytes of an 8-byte slice: byte k has weight 256^k.
from_le_bytes(s) ==
    <<s[1] + 256 * s[2], s[3] + 256 * s[4],
      s[5] + 256 * s[6], s[7] + 256 * s[8]>>

\* u32::from_le_bytes of a 4-byte slice, widened: `... as u64`.
from_le_bytes_u32(s) == <<s[1] + 256 * s[2], s[3] + 256 * s[4], 0, 0>>

\* `slice[0] as u64`
u8_as_u64(b) == <<b, 0, 0, 0>>

\* `input_len as u64` (usize is 64 bits wide; lengths here stay below 2^31).
usize_as_u64(n) == <<n % W16, (n \div W16) % W16, 0, 0>>

\* --------------------------------------------------------------- constants

PRIME64_1 == <<\HCA87, \H85EB, \H79B1, \H9E37>>
PRIME64_2 == <<\HEB4F, \H27D4, \HAE3D, \HC2B2>>
PRIME64_3 == <<\H79F9, \H9E37, \H67B1, \H1656>>
PRIME64_4 == <<\HAE63, \HC2B2, \HCA77, \H85EB>>
PRIME64_5 == <<\H67C5, \H1656, \HEB2F, \H27D4>>

STRIPE_LEN_32 == 32

\* -------------------------------------------------------------- mixing core

\* round with the accumulator rotated by 13 bits in place of 31.
round_rot13(acc_n, lan_n) ==
    wrapping_mul[
        rotate_left[wrapping_add[acc_n, wrapping_mul[lan_n, PRIME64_2]], 13],
        PRIME64_1]

round(acc_n, lan_n) ==
    wrapping_mul[
        rotate_left[wrapping_add[acc_n, wrapping_mul[lan_n, PRIME64_2]], 31],
        PRIME64_1]

merge_accumulator(acc, acc_n) ==
    wrapping_add[wrapping_mul[xor[acc, round(Zero, acc_n)], PRIME64_1],
                 PRIME64_4]

\* A call's outcome: a value, or a panic that unwinds the call.
Ok(v) == [panic |-> FALSE, val |-> v]
Panic == [panic |-> TRUE, val |-> Zero]

\* `a + b` on u64: wraps when the build has overflow checks off (release
\* profile), panics with "attempt to add with overflow" when they are on
\* (dev and test profiles).
add_panics(a, b, checks) == checks /\ add_overflows[a, b]

\* ------------------------------------------------------- one-shot hasher

\* The loops below carry their variables (the accumulators or acc, and
\* the slice still to be read) in one record, the loop's state.

\* Step 2 of xxh64_slice: while slice.len() >= 32, fold one stripe into the
\* four lanes and drop it from the slice.
RECURSIVE slice_stripes(_)
slice_stripes(st) ==
    IF Len(st.slice) >= 32
    THEN slice_stripes(
             [accs |->
                  <<round(st.accs[1], from_le_bytes(SubSeq(st.slice, 1, 8))),
                    round(st.accs[2], from_le_bytes(SubSeq(st.slice, 9, 16))),
                    round(st.accs[3], from_le_bytes(SubSeq(st.slice, 17, 24))),
                    round(st.accs[4], from_le_bytes(SubSeq(st.slice, 25, 32)))>>,
              slice |-> SubSeq(st.slice, 33, Len(st.slice))])
    ELSE st

\* Step 3 of xxh64_slice: accumulator convergence.
slice_converge(accs) ==
    LET acc0 == wrapping_add[
                    wrapping_add[
                        wrapping_add[rotate_left[accs[1], 1],
                                     rotate_left[accs[2], 7]],
                        rotate_left[accs[3], 12]],
                    rotate_left[accs[4], 18]]
    IN  merge_accumulator(
            merge_accumulator(
                merge_accumulator(merge_accumulator(acc0, accs[1]), accs[2]),
                accs[3]),
            accs[4])

\* Step 5 of xxh64_slice, first loop: while slice.len() >= 8.
RECURSIVE slice_tail8(_)
slice_tail8(st) ==
    IF Len(st.slice) >= 8
    THEN LET lane == from_le_bytes(SubSeq(st.slice, 1, 8))
             a1 == xor[st.acc, round(Zero, lane)]
             a2 == wrapping_mul[rotate_left[a1, 27], PRIME64_1]
         IN  slice_tail8([acc |-> wrapping_add[a2, PRIME64_4],
                          slice |-> SubSeq(st.slice, 9, Len(st.slice))])
    ELSE st

\* Step 5 of xxh64_slice: if slice.len() >= 4 (at most once).
slice_tail4(st) ==
    IF Len(st.slice) >= 4
    THEN LET lane == from_le_bytes_u32(SubSeq(st.slice, 1, 4))
             a1 == xor[st.acc, wrapping_mul[lane, PRIME64_1]]
             a2 == wrapping_mul[rotate_left[a1, 23], PRIME64_2]
         IN  [acc |-> wrapping_add[a2, PRIME64_3],
              slice |-> SubSeq(st.slice, 5, Len(st.slice))]
    ELSE st

\* Step 5 of xxh64_slice, last loop: while slice.len() >= 1.
RECURSIVE slice_tail1(_)
slice_tail1(st) ==
    IF Len(st.slice) >= 1
    THEN LET lane == u8_as_u64(st.slice[1])
             a1 == xor[st.acc, wrapping_mul[lane, PRIME64_5]]
         IN  slice_tail1(
                 [acc |-> wrapping_mul[rotate_left[a1, 11], PRIME64_1],
                  slice |-> SubSeq(st.slice, 2, Len(st.slice))])
    ELSE st

\* Step 6 of xxh64_slice: final mix.
slice_avalanche(acc) ==
    LET a1 == xor[acc, shr[acc, 33]]
        a2 == wrapping_mul[a1, PRIME64_2]
        a3 == xor[a2, shr[a2, 29]]
        a4 == wrapping_mul[a3, PRIME64_3]
    IN  xor[a4, shr[a4, 32]]

\* xxh64_slice(slice, seed) in a build whose overflow checks are `checks`.
xxh64_slice(slice, seed, checks) ==
    LET input_len == Len(slice)
        short == Len(slice) < 32
        panics == IF short
                  THEN add_panics(seed, PRIME64_5, checks)
                  ELSE \/ add_panics(seed, wrapping_add[PRIME64_1, PRIME64_2],
                                     checks)
                       \/ add_panics(seed, PRIME64_2, checks)
        init == <<wrapping_add[seed, wrapping_add[PRIME64_1, PRIME64_2]],
                  wrapping_add[seed, PRIME64_2],
                  seed,
                  wrapping_sub[seed, PRIME64_1]>>
        st == slice_stripes([accs |-> init, slice |-> slice])
        acc0 == IF short THEN wrapping_add[seed, PRIME64_5]
                ELSE slice_converge(st.accs)
        rest == IF short THEN slice ELSE st.slice
        acc4 == wrapping_add[acc0, usize_as_u64(input_len)]
        t8 == slice_tail8([acc |-> acc4, slice |-> rest])
        t1 == slice_tail1(slice_tail4(t8))
    IN  IF panics THEN Panic ELSE Ok(slice_avalanche(t1.acc))

\* ------------------------------------------------------ streaming hasher

\* An Xxh64 value.
Xxh64(seed, acc1, acc2, acc3, acc4, buffer, buffer_len, input_len) ==
    [seed |-> seed, acc1 |-> acc1, acc2 |-> acc2, acc3 |-> acc3,
     acc4 |-> acc4, buffer |-> buffer, buffer_len |-> buffer_len,
     input_len |-> input_len]

\* [0; STRIPE_LEN_32]
zero_buffer == [i \in 1..STRIPE_LEN_32 |-> 0]

\* The outcome of a call that returns or updates a hasher.
HOk(hasher) == [panic |-> FALSE, h |-> hasher]
HPanic(hasher) == [panic |-> TRUE, h |-> hasher]

\* Xxh64::with_seed(seed): `seed + ...` is a checked addition.
with_seed(seed, checks) ==
    LET hasher == Xxh64(seed,
                        wrapping_add[seed, wrapping_add[PRIME64_1, PRIME64_2]],
                        wrapping_add[seed, PRIME64_2],
                        seed,
                        wrapping_sub[seed, PRIME64_1],
                        zero_buffer, 0, 0)
    IN  IF \/ add_panics(seed, wrapping_add[PRIME64_1, PRIME64_2], checks)
           \/ add_panics(seed, PRIME64_2, checks)
        THEN HPanic(hasher)
        ELSE HOk(hasher)

\* <Xxh64 as Default>::default()
default ==
    Xxh64(Zero,
          wrapping_add[PRIME64_1, PRIME64_2],
          PRIME64_2,
          Zero,
          wrapping_sub[Zero, PRIME64_1],
          zero_buffer, 0, 0)

\* A build_hasher that seeds the new hasher with the builder's own seed.
build_hasher_own_seed(self, checks) == with_seed(self.seed, checks)

\* <Xxh64 as BuildHasher>::build_hasher(&self)
build_hasher(self, checks) == with_seed(Zero, checks)

\* A process_stripe that feeds the first two words to each other's lane.
process_stripe_swapped(accs, slice) ==
    <<round(accs[1], from_le_bytes(SubSeq(slice, 9, 16))),
      round(accs[2], from_le_bytes(SubSeq(slice, 1, 8))),
      round(accs[3], from_le_bytes(SubSeq(slice, 17, 24))),
      round(accs[4], from_le_bytes(SubSeq(slice, 25, 32)))>>

\* Xxh64::process_stripe(accs, slice), slice a [u8; 32].
process_stripe(accs, slice) ==
    <<round(accs[1], from_le_bytes(SubSeq(slice, 1, 8))),
      round(accs[2], from_le_bytes(SubSeq(slice, 9, 16))),
      round(accs[3], from_le_bytes(SubSeq(slice, 17, 24))),
      round(accs[4], from_le_bytes(SubSeq(slice, 25, 32)))>>

\* Whether the range lo..hi indexes a slice of length len without a panic.
range_ok(lo, hi, len) == 0 <= lo /\ lo <= hi /\ hi <= len

\* dst[lo..hi].copy_from_slice(src), for hi - lo = src.len().
copy_from_slice(dst, lo, hi, src) ==
    SubSeq(dst, 1, lo) \o src \o SubSeq(dst, hi + 1, Len(dst))

\* The while loop of write: stripes read directly from the chunk.  The
\* loop's state is accs, bytes_consumed and new_buffer_len, and whether an
\* index ran out of the chunk.
RECURSIVE write_loop(_, _)
write_loop(st, bytes) ==
    IF ~st.panic /\ st.new_buffer_len >= 32
    THEN IF ~range_ok(st.bytes_consumed, st.bytes_consumed + 32, Len(bytes))
         THEN [st EXCEPT !.panic = TRUE]
         ELSE write_loop(
                  [accs |-> process_stripe(
                                st.accs,
                                SubSeq(bytes, st.bytes_consumed + 1,
                                       st.bytes_consumed + 32)),
                   bytes_consumed |-> st.bytes_consumed + 32,
                   new_buffer_len |-> st.new_buffer_len - 32,
                   panic |-> FALSE],
                  bytes)
    ELSE st

\* The else branch of write: the chunk completes at least one stripe.
write_consume(self, bytes) ==
    LET take == STRIPE_LEN_32 - self.buffer_len
        filled == copy_from_slice(self.buffer, self.buffer_len,
                                  STRIPE_LEN_32, SubSeq(bytes, 1, take))
        st == write_loop(
                  [accs |-> process_stripe(
                                <<self.acc1, self.acc2, self.acc3, self.acc4>>,
                                filled),
                   bytes_consumed |-> 32 - self.buffer_len,
                   new_buffer_len |-> Len(bytes) + self.buffer_len - 32,
                   panic |-> FALSE],
                  bytes)
        left == SubSeq(bytes, st.bytes_consumed + 1, Len(bytes))
    IN  IF \/ ~range_ok(self.buffer_len, STRIPE_LEN_32, STRIPE_LEN_32)
           \/ ~range_ok(0, take, Len(bytes))
           \/ Len(bytes) + self.buffer_len - 32 < 0
        THEN HPanic(self)
        ELSE IF st.panic
        THEN HPanic(self)
        ELSE IF st.new_buffer_len > 0
                /\ ~(/\ range_ok(0, st.new_buffer_len, STRIPE_LEN_32)
                     /\ range_ok(st.bytes_consumed, Len(bytes), Len(bytes))
                     /\ st.new_buffer_len = Len(bytes) - st.bytes_consumed)
        THEN HPanic(self)
        ELSE HOk([self EXCEPT
                      !.input_len = self.input_len + Len(bytes),
                      !.acc1 = st.accs[1],
                      !.acc2 = st.accs[2],
                      !.acc3 = st.accs[3],
                      !.acc4 = st.accs[4],
                      !.buffer_len = st.new_buffer_len,
                      !.buffer = IF st.new_buffer_len > 0
                                 THEN copy_from_slice(filled, 0,
                                                      st.new_buffer_len, left)
                                 ELSE filled])

\* An append that puts the chunk at the start of the buffer.
write_append_at_start(self, bytes) ==
    IF ~range_ok(0, Len(bytes), STRIPE_LEN_32)
    THEN HPanic(self)
    ELSE HOk([self EXCEPT
                  !.input_len = self.input_len + Len(bytes),
                  !.buffer = copy_from_slice(self.buffer, 0, Len(bytes),
                                             bytes),
                  !.buffer_len = self.buffer_len + Len(bytes)])

\* The if branch of write: the chunk is appended to the carry buffer.
write_append(self, bytes) ==
    IF ~range_ok(self.buffer_len, Len(bytes) + self.buffer_len, STRIPE_LEN_32)
    THEN HPanic(self)
    ELSE HOk([self EXCEPT
                  !.input_len = self.input_len + Len(bytes),
                  !.buffer = copy_from_slice(self.buffer, self.buffer_len,
                                             Len(bytes) + self.buffer_len,
                                             bytes),
                  !.buffer_len = self.buffer_len + Len(bytes)])

\* A write that also appends a chunk that exactly fills the buffer (`<=`
\* for `<`).
write_fill_appends(self, bytes) ==
    IF Len(bytes) + self.buffer_len <= STRIPE_LEN_32
    THEN write_append(self, bytes)
    ELSE write_consume(self, bytes)

\* Xxh64::write(&mut self, bytes).  A panic unwinds the call; the hasher it
\* leaves behind is not observed.
write(self, bytes) ==
    IF Len(bytes) + self.buffer_len < STRIPE_LEN_32
    THEN write_append(self, bytes)
    ELSE write_consume(self, bytes)

\* A finish that chooses its branch on buffer_len in place of input_len.
finish_branch_on_buffer(self) ==
    IF self.buffer_len >= STRIPE_LEN_32 THEN "converge" ELSE "short"

\* The branch finish takes to seed acc.
finish_branch(self) ==
    IF self.input_len >= STRIPE_LEN_32 THEN "converge" ELSE "short"

\* Accumulator convergence in finish.
finish_converge(self) ==
    LET acc0 == wrapping_add[
                    wrapping_add[
                        wrapping_add[rotate_left[self.acc1, 1],
                                     rotate_left[self.acc2, 7]],
                        rotate_left[self.acc3, 12]],
                    rotate_left[self.acc4, 18]]
    IN  merge_accumulator(
            merge_accumulator(
                merge_accumulator(merge_accumulator(acc0, self.acc1),
                                  self.acc2),
                self.acc3),
            self.acc4)

\* Step 5 of finish, first loop: while slice.len() >= 8.
RECURSIVE finish_tail8(_)
finish_tail8(st) ==
    IF Len(st.slice) >= 8
    THEN LET lane == from_le_bytes(SubSeq(st.slice, 1, 8))
             a1 == xor[st.acc, round(Zero, lane)]
             a2 == wrapping_mul[rotate_left[a1, 27], PRIME64_1]
         IN  finish_tail8([acc |-> wrapping_add[a2, PRIME64_4],
                           slice |-> SubSeq(st.slice, 9, Len(st.slice))])
    ELSE st

\* Step 5 of finish: if slice.len() >= 4.
finish_tail4(st) ==
    IF Len(st.slice) >= 4
    THEN LET lane == from_le_bytes_u32(SubSeq(st.slice, 1, 4))
             a1 == xor[st.acc, wrapping_mul[lane, PRIME64_1]]
             a2 == wrapping_mul[rotate_left[a1, 23], PRIME64_2]
         IN  [acc |-> wrapping_add[a2, PRIME64_3],
              slice |-> SubSeq(st.slice, 5, Len(st.slice))]
    ELSE st

\* Step 5 of finish, last loop: while slice.len() >= 1.
RECURSIVE finish_tail1(_)
finish_tail1(st) ==
    IF Len(st.slice) >= 1
    THEN LET lane == u8_as_u64(st.slice[1])
             a1 == xor[st.acc, wrapping_mul[lane, PRIME64_5]]
         IN  finish_tail1(
                 [acc |-> wrapping_mul[rotate_left[a1, 11], PRIME64_1],
                  slice |-> SubSeq(st.slice, 2, Len(st.slice))])
    ELSE st

\* Step 6 of finish: final mix.
finish_avalanche(acc) ==
    LET a1 == xor[acc, shr[acc, 33]]
        a2 == wrapping_mul[a1, PRIME64_2]
        a3 == xor[a2, shr[a2, 29]]
        a4 == wrapping_mul[a3, PRIME64_3]
    IN  xor[a4, shr[a4, 32]]

\* A finish that reads the whole buffer, not its first buffer_len bytes.
finish_slice_whole(self) == self.buffer

\* The slice finish reads: &self.buffer.0[..self.buffer_len].
finish_slice(self) == SubSeq(self.buffer, 1, self.buffer_len)

\* Xxh64::finish(&self) in a build whose overflow checks are `checks`.
finish(self, checks) ==
    LET acc0 == IF finish_branch(self) = "converge"
                THEN finish_converge(self)
                ELSE wrapping_add[self.seed, PRIME64_5]
        acc4 == wrapping_add[acc0, usize_as_u64(self.input_len)]
        t8 == finish_tail8([acc |-> acc4, slice |-> finish_slice(self)])
        t1 == finish_tail1(finish_tail4(t8))
    IN  IF ~range_ok(0, self.buffer_len, STRIPE_LEN_32)
        THEN Panic
        ELSE IF /\ finish_branch(self) = "short"
                /\ add_panics(self.seed, PRIME64_5, checks)
        THEN Panic
        ELSE Ok(finish_avalanche(t1.acc))

\* ------------------------------------------------------------ the program

\* Seeds the hashers are built with: 0 (test_xxh64), 10 (test_xxh64_digest),
\* the least seed for which seed + PRIME64_2 exceeds u64::MAX, and u64::MAX.
Seed10 == <<10, 0, 0, 0>>
SeedWrapP2 == <<\H14B1, \HD82B, \H51C2, \H3D4D>>
SeedMax == <<\HFFFF, \HFFFF, \HFFFF, \HFFFF>>
Seeds == {Zero, Seed10, SeedWrapP2, SeedMax}

\* The byte streams fed to the hasher: the digit string of test_xxh64, and
\* the counting bytes of test_xxh64_digest (`i as u8`) from i = 200 on, which
\* pass through 255 and wrap.  StreamByte(d, p) is byte p (from 0) of d.
Streams == {"digits", "count"}
StreamByte(d, p) ==
    CASE d = "digits" -> 48 + (p % 10)
      [] d = "count" -> (200 + p) % 256
Stream(d, from, n) == [i \in 1..n |-> StreamByte(d, from + i - 1)]

\* Chunk lengths passed to write: empty, one byte, the tail classes, around
\* one stripe and around two.
ChunkLens == {0, 1, 5, 13, 31, 32, 33, 64, 65}

\* Inputs of the one-shot function: every prefix of the stream, and b"1".
OneShotInputs(d) == {Stream(d, 0, n) : n \in 0..MaxLen} \cup {<<49>>}

None == <<>>
Some(v) == <<v>>

VARIABLES
    overflow_checks,  \* the build: TRUE with overflow checks (dev, test)
    data,             \* the stream being hashed
    h,                \* the hasher: None before construction, else Some
    written,          \* every byte passed to write so far, in order
    op,               \* the last call
    arg_bytes,        \* the byte slice passed to xxh64_slice
    arg_seed,         \* its seed argument: None or Some
    ret,              \* the u64 it returned: None or Some
    built,            \* the hasher build_hasher returned: None or Some
    panicked          \* the last call panicked; the program has ended

vars == <<overflow_checks, data, h, written, op, arg_bytes, arg_seed, ret,
          built, panicked>>

Init ==
    /\ overflow_checks \in BOOLEAN
    /\ data \in Streams
    /\ h = None
    /\ written = <<>>
    /\ op = "none"
    /\ arg_bytes = <<>>
    /\ arg_seed = None
    /\ ret = None
    /\ built = None
    /\ panicked = FALSE

\* xxh64_slice(bytes, seed): a pure function, called once, before any
\* hasher exists.
XxhSlice ==
    /\ op = "none"
    /\ \E bytes \in OneShotInputs(data), seed \in Seeds :
          LET r == xxh64_slice(bytes, seed, overflow_checks)
          IN  /\ op' = "xxh64_slice"
              /\ arg_bytes' = bytes
              /\ arg_seed' = Some(seed)
              /\ ret' = IF r.panic THEN None ELSE Some(r.val)
              /\ panicked' = r.panic
    /\ UNCHANGED <<overflow_checks, data, h, written, built>>

\* let mut digest = Xxh64::with_seed(seed);
WithSeed ==
    /\ ~panicked
    /\ h = None
    /\ \E seed \in Seeds :
          LET r == with_seed(seed, overflow_checks)
          IN  /\ op' = "with_seed"
              /\ arg_seed' = Some(seed)
              /\ h' = IF r.panic THEN None ELSE Some(r.h)
              /\ panicked' = r.panic
    /\ arg_bytes' = <<>>
    /\ ret' = None
    /\ UNCHANGED <<overflow_checks, data, written, built>>

\* let mut digest = Xxh64::default();
Default ==
    /\ ~panicked
    /\ h = None
    /\ op' = "default"
    /\ h' = Some(default)
    /\ arg_bytes' = <<>>
    /\ arg_seed' = None
    /\ ret' = None
    /\ UNCHANGED <<overflow_checks, data, written, built, panicked>>

\* digest.write(bytes), bytes the next n bytes of the stream.
Write ==
    /\ ~panicked
    /\ h # None
    /\ \E n \in ChunkLens :
          /\ Len(written) + n <= MaxLen
          /\ LET bytes == Stream(data, Len(written), n)
                 r == write(h[1], bytes)
             IN  /\ op' = "write"
                 /\ h' = Some(r.h)
                 /\ panicked' = r.panic
                 /\ written' = IF r.panic THEN written ELSE written \o bytes
    /\ arg_bytes' = <<>>
    /\ arg_seed' = None
    /\ ret' = None
    /\ built' = None
    /\ UNCHANGED <<overflow_checks, data>>

\* digest.finish()
Finish ==
    /\ ~panicked
    /\ h # None
    /\ LET r == finish(h[1], overflow_checks)
       IN  /\ ret' = IF r.panic THEN None ELSE Some(r.val)
           /\ panicked' = r.panic
    /\ op' = "finish"
    /\ arg_bytes' = <<>>
    /\ arg_seed' = None
    /\ built' = None
    /\ UNCHANGED <<overflow_checks, data, h, written>>

\* digest.build_hasher(), the hasher used as a BuildHasher.
BuildHasher ==
    /\ ~panicked
    /\ h # None
    /\ LET r == build_hasher(h[1], overflow_checks)
       IN  /\ built' = IF r.panic THEN None ELSE Some(r.h)
           /\ panicked' = r.panic
    /\ op' = "build_hasher"
    /\ arg_bytes' = <<>>
    /\ arg_seed' = None
    /\ ret' = None
    /\ UNCHANGED <<overflow_checks, data, h, written>>

Next == XxhSlice \/ WithSeed \/ Default \/ Write \/ Finish \/ BuildHasher

Spec == Init /\ [][Next]_vars

\* ------------------------------------------------------------- properties

\* The hasher, in the states that have one.
self == h[1]

\* The Empty state of a hasher seeded with seed, every sum modulo 2^64.
EmptyState(seed) ==
    Xxh64(seed,
          wrapping_add[wrapping_add[seed, PRIME64_1], PRIME64_2],
          wrapping_add[seed, PRIME64_2],
          seed,
          wrapping_sub[seed, PRIME64_1],
          zero_buffer, 0, 0)

\* The outcome of the last call, when it returns a u64.
Outcome == IF panicked THEN Panic ELSE Ok(ret[1])

\* C1: for every seed and every chunking of the bytes, with_seed, one write
\* per chunk and finish yield what xxh64_slice yields for the concatenation
\* and the seed: construction fails only where the one-shot function fails
\* on the empty input, and finish ends as the one-shot function does.
C1_StreamingEqualsOneShot ==
    /\ (op = "with_seed" /\ panicked)
           => xxh64_slice(<<>>, arg_seed[1], overflow_checks).panic
    /\ op = "finish"
           => Outcome = xxh64_slice(written, self.seed, overflow_checks)

\* C2: xxh64_slice has no error outcome: for every input and seed it returns
\* the digest computed with every addition on the seed taken modulo 2^64.
C2_SliceAlwaysReturns ==
    op = "xxh64_slice"
        => /\ ~panicked
           /\ ret = Some(xxh64_slice(arg_bytes, arg_seed[1], FALSE).val)

\* C3: with_seed(seed) succeeds for every seed and yields the Empty state of
\* that seed, and default() yields the state of with_seed(0).
C3_WithSeedYieldsEmpty ==
    /\ op = "with_seed" => ~panicked /\ h = Some(EmptyState(arg_seed[1]))
    /\ op = "default" => ~panicked /\ h = Some(EmptyState(Zero))

\* C4: finish is a read-only query: every finish step leaves the hasher as
\* it was and returns xxh64_slice of all the bytes written before it, so a
\* finish right after a finish returns the same value again, and a finish
\* between two writes does not change what a later finish returns.
C4_FinishReadOnly ==
    [][op' = "finish"
          => /\ h' = h
             /\ ~panicked'
             /\ ret' = Some(xxh64_slice(written, self.seed,
                                        overflow_checks).val)
             /\ ~xxh64_slice(written, self.seed, overflow_checks).panic
             /\ (op = "finish" => ret' = ret)]_vars

\* C4 witness: a finish has returned on a hasher holding full stripes in its
\* accumulators and a tail in its buffer.
C4_Witness ==
    /\ op = "finish"
    /\ ret # None
    /\ self.input_len >= 2 * STRIPE_LEN_32
    /\ self.buffer_len > 0

\* C5: when a write returns, buffer_len is in 0..31, and no write and no
\* finish indexes outside the 32-byte buffer or outside the chunk (an index
\* out of range is a panic).
C5_BufferLenBelowStripe ==
    /\ h # None => self.buffer_len \in 0..(STRIPE_LEN_32 - 1)
    /\ h # None => Len(self.buffer) = STRIPE_LEN_32
    /\ op \in {"write", "finish"} => ~panicked

\* C5 witness: a write has returned with the buffer one byte short of a
\* stripe, after at least one stripe was drained.
C5_Witness ==
    /\ op = "write"
    /\ self.buffer_len = STRIPE_LEN_32 - 1
    /\ self.input_len > STRIPE_LEN_32

\* C6: build_hasher returns the Empty state of seed 0 whatever the builder's
\* seed and whatever was written to the builder, and leaves the builder
\* unchanged.
C6_BuildHasherSeedZero ==
    [][op' = "build_hasher"
          => /\ ~panicked'
             /\ built' = Some(EmptyState(Zero))
             /\ h' = h]_vars

\* C6 witness: build_hasher has returned on a builder of non-zero seed that
\* bytes were written to.
C6_Witness ==
    /\ op = "build_hasher"
    /\ built # None
    /\ self.seed # Zero
    /\ self.input_len > STRIPE_LEN_32

\* The u64 written in decimal with the given digits, most significant first.
RECURSIVE u64_dec(_, _)
u64_dec(digits, acc) ==
    IF digits = <<>> THEN acc
    ELSE u64_dec(Tail(digits),
                 wrapping_add[wrapping_mul[acc, <<10, 0, 0, 0>>],
                              u8_as_u64(Head(digits))])

\* The assertions of test_xxh64: the input and the digits of its digest.
TestVectors ==
    { [input |-> Stream("digits", 0, 0),
       digest |-> <<1,7,2,4,1,7,0,9,2,5,4,0,7,7,3,7,6,9,2,1>>],
      [input |-> <<49>>,
       digest |-> <<1,3,2,3,7,2,2,5,5,0,3,6,7,0,4,9,4,4,2,0>>],
      [input |-> Stream("digits", 0, 5),
       digest |-> <<3,8,0,4,2,1,8,0,7,4,5,5,6,9,5,2,4,2,1>>],
      [input |-> Stream("digits", 0, 10),
       digest |-> <<4,5,6,6,5,8,1,2,7,1,1,3,7,3,8,0,3,2,7>>],
      [input |-> Stream("digits", 0, 20),
       digest |-> <<3,2,4,4,5,9,6,4,9,8,0,7,6,1,6,3,5,3,2>>],
      [input |-> Stream("digits", 0, 40),
       digest |-> <<1,4,5,8,7,0,9,7,6,7,5,1,2,7,1,7,1,3,7,7>>],
      [input |-> Stream("digits", 0, 80),
       digest |-> <<6,2,5,6,7,2,3,5,5,9,4,3,2,2,9,2,1,0,7>>] }

\* C7: at seed 0 xxh64_slice returns the reference digest of each of the
\* seven inputs of test_xxh64.
C7_ReferenceDigests ==
    \A v \in TestVectors :
        (op = "xxh64_slice" /\ arg_seed = Some(Zero) /\ arg_bytes = v.input)
            => ~panicked /\ ret = Some(u64_dec(v.digest, Zero))

\* C7 witness: xxh64_slice has returned for the 80-byte digit string at
\* seed 0 (two stripes and two 8-byte tail words).
C7_Witness ==
    /\ op = "xxh64_slice"
    /\ arg_seed = Some(Zero)
    /\ arg_bytes = Stream("digits", 0, 80)
    /\ ret # None

\* The chunk a write step passes: the bytes it adds to the bytes written.
chunk_written == SubSeq(written', Len(written) + 1, Len(written'))

\* C8: a write whose chunk length plus buffer_len is below 32 leaves seed
\* and accumulators unchanged, keeps the first buffer_len bytes of the
\* buffer, puts the chunk after them and raises buffer_len and input_len by
\* the chunk length; a zero-length write leaves the hasher, and so the value
\* of finish, unchanged.
C8_ShortWriteAppends ==
    [][(op' = "write" /\ ~panicked'
           /\ Len(chunk_written) + self.buffer_len < STRIPE_LEN_32)
          => /\ h'[1].seed = self.seed
             /\ h'[1].acc1 = self.acc1
             /\ h'[1].acc2 = self.acc2
             /\ h'[1].acc3 = self.acc3
             /\ h'[1].acc4 = self.acc4
             /\ SubSeq(h'[1].buffer, 1, self.buffer_len)
                    = SubSeq(self.buffer, 1, self.buffer_len)
             /\ SubSeq(h'[1].buffer, self.buffer_len + 1,
                       self.buffer_len + Len(chunk_written)) = chunk_written
             /\ h'[1].buffer_len = self.buffer_len + Len(chunk_written)
             /\ h'[1].input_len = self.input_len + Len(chunk_written)
             /\ (chunk_written = <<>>
                    => /\ h' = h
                       /\ finish(h'[1], overflow_checks)
                              = finish(self, overflow_checks))]_vars

\* C8 witness: a write has returned with 18 bytes in the buffer of a hasher
\* that took 18 bytes in all, so by appends only (5 bytes after 13, 13 after
\* 5, or single bytes).
C8_Witness ==
    /\ op = "write"
    /\ ~panicked
    /\ self.buffer_len = 18
    /\ self.input_len = 18

\* C9: input_len never decreases and equals the number of bytes written
\* since construction; a write raises it by the chunk length and finish
\* leaves it alone; once it is 32 or more, finish takes the convergence
\* branch in every later state.
C9_InputLenMonotone ==
    [][h' # None
          => /\ h'[1].input_len = Len(written')
             /\ (h # None
                    => /\ h'[1].input_len >= self.input_len
                       /\ h'[1].input_len
                              = self.input_len + Len(chunk_written)
                       /\ (op' = "finish"
                              => h'[1].input_len = self.input_len)
                       /\ (self.input_len >= STRIPE_LEN_32
                              => finish_branch(h'[1]) = "converge"))]_vars

\* C9 witness: finish has returned on a hasher that took more than one
\* stripe of input.
C9_Witness ==
    /\ op = "finish"
    /\ ret # None
    /\ self.input_len > STRIPE_LEN_32
    /\ finish_branch(self) = "converge"

\* The accumulators after folding the full stripes of bytes, in order, into
\* accs with round: lane n takes the n-th 8-byte word of each stripe.
RECURSIVE fold_stripes(_, _)
fold_stripes(accs, bytes) ==
    IF Len(bytes) < 32 THEN accs
    ELSE fold_stripes(<<round(accs[1], from_le_bytes(SubSeq(bytes, 1, 8))),
                        round(accs[2], from_le_bytes(SubSeq(bytes, 9, 16))),
                        round(accs[3], from_le_bytes(SubSeq(bytes, 17, 24))),
                        round(accs[4], from_le_bytes(SubSeq(bytes, 25, 32)))>>,
                      SubSeq(bytes, 33, Len(bytes)))

\* The hasher with every buffer byte at buffer_len and above overwritten.
scrubbed(hasher) ==
    [hasher EXCEPT !.buffer =
        [i \in 1..STRIPE_LEN_32 |->
            IF i <= hasher.buffer_len THEN hasher.buffer[i] ELSE 255]]

\* C10: buffer_len is input_len mod 32, the first buffer_len bytes of the
\* buffer are the last buffer_len bytes written, the accumulators are the
\* seed's initial values folded with the full stripes of the bytes written,
\* each once and in order, and the buffer bytes at buffer_len and above do
\* not affect what finish returns.
C10_StateMatchesInput ==
    (h # None /\ ~panicked)
        => /\ self.buffer_len = self.input_len % STRIPE_LEN_32
           /\ self.input_len = Len(written)
           /\ SubSeq(self.buffer, 1, self.buffer_len)
                  = SubSeq(written, Len(written) - self.buffer_len + 1,
                           Len(written))
           /\ <<self.acc1, self.acc2, self.acc3, self.acc4>>
                  = fold_stripes(<<EmptyState(self.seed).acc1,
                                   EmptyState(self.seed).acc2,
                                   EmptyState(self.seed).acc3,
                                   EmptyState(self.seed).acc4>>, written)
           /\ (op = "finish"
                  => ret = Some(finish(scrubbed(self), overflow_checks).val))

\* C10 witness: finish has returned on a hasher that folded two stripes and
\* whose buffer holds, above buffer_len, bytes of an earlier stripe.
C10_Witness ==
    /\ op = "finish"
    /\ ret # None
    /\ self.input_len >= 2 * STRIPE_LEN_32
    /\ self.buffer_len > 0
    /\ \E i \in (self.buffer_len + 1)..STRIPE_LEN_32 : self.buffer[i] # 0

====
